---- MODULE Spec2Model ----
(***************************************************************************)
(* The four VM operations of agent.py (create_gcp_vm, start_gcp_vm,        *)
(* stop_gcp_vm, delete_gcp_vm) as one call that goes through the steps     *)
(* build -> launch -> wait -> returned.  The child process and the clock   *)
(* are the environment: the child may fail to launch, exit with any code   *)
(* and output, or outlive the timeout.                                     *)
(*                                                                         *)
(* Text is a sequence of string segments: a formatted string such as       *)
(* f"--subnet={subnetwork}" is <<"--subnet=", subnetwork>>, and the output *)
(* of the child is a sequence of one-character strings (or of byte codes   *)
(* where the code receives bytes).                                         *)
(***************************************************************************)
EXTENDS Integers, Sequences, FiniteSets, TLC

VARIABLES pc, call, command, network_info, child, launches, started,
          elapsed, proc, exc, result

vars == <<pc, call, command, network_info, child, launches, started,
          elapsed, proc, exc, result>>

----------------------------------------------------------------------------
(* Bounds of the model *)

\* longest stdout / stderr the child writes
MaxLen == 2
\* seconds between two observations of the clock
TickSeconds == 60

(* Program constants *)
CreateTimeout == 180
ShellTimeout == 60

----------------------------------------------------------------------------
(* Inputs *)

\* an optional argument the caller did not pass
Omitted == "<omitted>"

ShellOps == {"start", "stop", "delete"}
ProjectIds == {"proj1"}
Zones == {"us-central1-a"}
VmNames == {"vm1", "web-2"}
NetworkArgs == {Omitted, "", "legacy-net", "ignored-net"}
SubnetworkArgs == {Omitted, "", "prod-subnet"}
MachineTypeArgs == {Omitted, "e2-medium"}
ExitCodes == {0, 1, 2}

\* characters the child writes and the bytes that encode them; 255 is a byte
\* that is not valid UTF-8
Chars == {"e", " ", "\n"}
Bytes == {101, 32, 10, 255}
Whitespace == {" ", "\n"}

SeqsUpTo(S, n) == UNION {[1..k -> S] : k \in 0..n}
Texts == SeqsUpTo(Chars, MaxLen)
ByteStrings == SeqsUpTo(Bytes, MaxLen)

----------------------------------------------------------------------------
(* Strings *)

RECURSIVE LStrip(_)
LStrip(s) ==
    IF s = <<>> THEN s
    ELSE IF Head(s) \in Whitespace THEN LStrip(Tail(s)) ELSE s

RECURSIVE RStrip(_)
RStrip(s) ==
    IF s = <<>> THEN s
    ELSE IF s[Len(s)] \in Whitespace THEN RStrip(SubSeq(s, 1, Len(s) - 1)) ELSE s

\* faulty variant of Strip: trailing whitespace stays
StripLeadingOnly(s) == LStrip(s)

\* str.strip()
Strip(s) == RStrip(LStrip(s))

\* bytes.decode('utf-8') on the bytes of the model
Decodable(b) == \A i \in 1..Len(b) : b[i] < 128
ByteChar(x) == CASE x = 101 -> "e" [] x = 32 -> " " [] x = 10 -> "\n"
Decode(b) == [i \in 1..Len(b) |-> ByteChar(b[i])]

\* the value of a parameter with a default
Param(arg, default) == IF arg = Omitted THEN default ELSE arg

\* truth value of a str
Truthy(s) == s # ""

----------------------------------------------------------------------------
(* Values *)

NoCall == [op |-> "none"]
NoProc == [returncode |-> -1, stdout |-> <<>>, stderr |-> <<>>, completed |-> FALSE]
NoExc == [type |-> "none", text |-> <<>>]
NoResult == [status |-> "none"]

\* what a piece of a function body ends with
Return(r) == [kind |-> "return", value |-> r]
Raise(e) == [kind |-> "raise", exc |-> e]

\* the classes below Exception among the exceptions of the model
ExceptionSubclasses ==
    {"TimeoutExpired", "FileNotFoundError", "PermissionError", "BlockingIOError",
     "UnicodeDecodeError"}

\* repr of the args of a TimeoutExpired
RECURSIVE ListRepr(_)
ListRepr(parts) ==
    IF parts = <<>> THEN <<>>
    ELSE <<"'">> \o Head(parts) \o <<"'">>
         \o (IF Len(parts) > 1 THEN <<", ">> ELSE <<>>) \o ListRepr(Tail(parts))

CmdRepr(c, cmd) ==
    IF c.op = "create" THEN <<"[">> \o ListRepr(cmd) \o <<"]">> ELSE cmd

TimeoutExpired(c, cmd, seconds) ==
    [type |-> "TimeoutExpired",
     text |-> <<"Command '">> \o CmdRepr(c, cmd)
              \o <<"' timed out after ", ToString(seconds), " seconds">>]

FileNotFoundError ==
    [type |-> "FileNotFoundError",
     text |-> <<"[Errno 2] No such file or directory: 'gcloud'">>]

PermissionError ==
    [type |-> "PermissionError",
     text |-> <<"[Errno 13] Permission denied: 'gcloud'">>]

BlockingIOError ==
    [type |-> "BlockingIOError",
     text |-> <<"[Errno 11] Resource temporarily unavailable">>]

UnicodeDecodeError ==
    [type |-> "UnicodeDecodeError",
     text |-> <<"'utf-8' codec can't decode byte 0xff: invalid start byte">>]

----------------------------------------------------------------------------
(* create_gcp_vm *)

BaseCommand(c) ==
    << <<"gcloud">>, <<"compute">>, <<"instances">>, <<"create">>, <<c.vm_name>>,
       <<"--project=", c.project_id>>,
       <<"--zone=", c.zone>>,
       <<"--machine-type=", c.machine_type>>,
       <<"--image-family=", c.image_family>>,
       <<"--image-project=", c.image_project>>,
       <<"--quiet">> >>

ValidationError ==
    [status |-> "error",
     error_message |-> <<"Network or Subnetwork must be specified.">>]

UseSubnet(c) ==
    [early |-> FALSE,
     command_parts |-> Append(BaseCommand(c), <<"--subnet=", c.subnetwork>>),
     network_info |-> <<"subnet '", c.subnetwork, "'">>]

UseNetwork(c) ==
    [early |-> FALSE,
     command_parts |-> Append(BaseCommand(c), <<"--network=", c.network>>),
     network_info |-> <<"network '", c.network, "'">>]

RejectCall(c) ==
    [early |-> TRUE, command_parts |-> BaseCommand(c), network_info |-> <<>>]

\* faulty variants of BuildCreate
BuildCreateNetworkFirst(c) ==
    IF Truthy(c.network) THEN UseNetwork(c)
    ELSE IF Truthy(c.subnetwork) THEN UseSubnet(c)
    ELSE RejectCall(c)

BuildCreateSubnetOnly(c) ==
    IF Truthy(c.subnetwork) THEN UseSubnet(c) ELSE RejectCall(c)

BuildCreateNoCheck(c) ==
    IF Truthy(c.subnetwork) THEN UseSubnet(c) ELSE UseNetwork(c)

\* the command and the network selection
BuildCreate(c) ==
    IF Truthy(c.subnetwork) THEN UseSubnet(c)
    ELSE IF Truthy(c.network) THEN UseNetwork(c)
    ELSE RejectCall(c)

CreateTimeoutResult(vm_name) ==
    [status |-> "error",
     error_message |-> <<"Timeout occurred while trying to create VM '", vm_name, "'.">>]

CreateNotFoundResult ==
    [status |-> "error",
     error_message |->
        <<"Error: 'gcloud' command not found. Make sure Google Cloud SDK is installed and in your PATH.">>]

CreateUnexpectedResult(e) ==
    [status |-> "error",
     error_message |-> <<"An unexpected error occurred: ">> \o e.text]

\* faulty variant of CreateExcept: no clause for FileNotFoundError
CreateExceptNoFileNotFound(e, vm_name) ==
    IF e.type = "TimeoutExpired" THEN Return(CreateTimeoutResult(vm_name))
    ELSE IF e.type \in ExceptionSubclasses THEN Return(CreateUnexpectedResult(e))
    ELSE Raise(e)

\* the except clauses
CreateExcept(e, vm_name) ==
    IF e.type = "TimeoutExpired" THEN Return(CreateTimeoutResult(vm_name))
    ELSE IF e.type = "FileNotFoundError" THEN Return(CreateNotFoundResult)
    ELSE IF e.type \in ExceptionSubclasses THEN Return(CreateUnexpectedResult(e))
    ELSE Raise(e)

\* faulty variant of Succeeded
SucceededUnlessOne(p) == p.returncode # 1

\* process.returncode == 0
Succeeded(p) == p.returncode = 0

\* the statements after subprocess.run returned
CreateAfterRun(c, info, p) ==
    IF Succeeded(p)
    THEN Return([status |-> "success",
                 result |-> <<"Successfully created VM '", c.vm_name,
                              "' in zone '", c.zone, "'">>
                            \o (IF info # <<>> THEN <<" on ">> \o info \o <<".">>
                                ELSE <<".">>),
                 stdout |-> Strip(p.stdout)])
    ELSE Return([status |-> "error",
                 error_message |-> <<"Failed to create VM '", c.vm_name, "': ">>
                                   \o Strip(p.stderr),
                 stderr |-> Strip(p.stderr)])

----------------------------------------------------------------------------
(* start_gcp_vm, stop_gcp_vm, delete_gcp_vm *)

ShellCommand(c) ==
    CASE c.op = "start" ->
            <<"gcloud compute instances start ", c.vm_name,
              " --project=", c.project_id, " --zone=", c.zone>>
      [] c.op = "stop" ->
            <<"gcloud compute instances stop ", c.vm_name,
              " --project=", c.project_id, " --zone=", c.zone, " --quiet">>
      [] c.op = "delete" ->
            <<"gcloud compute instances delete ", c.vm_name,
              " --project=", c.project_id, " --zone=", c.zone, " --quiet">>

ShellSuccess(c) ==
    CASE c.op = "start" ->
            <<"Successfully started VM '", c.vm_name, "' in zone '", c.zone, "'.">>
      [] c.op = "stop" ->
            <<"Successfully stopped VM '", c.vm_name, "' in zone '", c.zone, "'.">>
      [] c.op = "delete" ->
            <<"Successfully deleted VM '", c.vm_name, "' in zone '", c.zone, "'.">>

ShellFailure(c) ==
    CASE c.op = "start" -> <<"Failed to start VM '", c.vm_name, "': ">>
      [] c.op = "stop" -> <<"Failed to stop VM '", c.vm_name, "': ">>
      [] c.op = "delete" -> <<"Failed to delete VM '", c.vm_name, "': ">>

ShellErrorResult(e) ==
    [status |-> "error", error_message |-> <<"An error occurred: ">> \o e.text]

\* faulty variant of ShellExcept: except OSError in place of except Exception
ShellExceptOSError(e) ==
    IF e.type \in {"FileNotFoundError", "PermissionError", "BlockingIOError"}
    THEN Return(ShellErrorResult(e))
    ELSE Raise(e)

\* the except clause
ShellExcept(e) ==
    IF e.type \in ExceptionSubclasses THEN Return(ShellErrorResult(e)) ELSE Raise(e)

\* the statements after process.communicate returned
ShellAfterCommunicate(c, p) ==
    IF Succeeded(p)
    THEN Return([status |-> "success", result |-> ShellSuccess(c)])
    ELSE IF Decodable(p.stderr)
         THEN Return([status |-> "error",
                      error_message |-> ShellFailure(c) \o Strip(Decode(p.stderr))])
         ELSE Raise(UnicodeDecodeError)

----------------------------------------------------------------------------
(* The parts the four functions share in the model *)

\* faulty variant of TimeoutOf: every operation waits as long as create
TimeoutOfCreate(c) == CreateTimeout

\* timeout= of subprocess.run and of process.communicate
TimeoutOf(c) == IF c.op = "create" THEN CreateTimeout ELSE ShellTimeout

\* subprocess.run kills the child it timed out on; communicate does not
ChildAfterTimeout(c) == IF c.op = "create" THEN "killed" ELSE "running"

\* exceptions the launch of the child can raise
LaunchErrors(c) ==
    IF c.op = "create" THEN {FileNotFoundError, PermissionError}
    ELSE {BlockingIOError}

\* try: ... except ...: an exception of the body goes through the except clauses
Try(c, body) ==
    IF body.kind = "raise"
    THEN IF c.op = "create" THEN CreateExcept(body.exc, c.vm_name)
         ELSE ShellExcept(body.exc)
    ELSE body

\* faulty variant of PcAfter: an error result is retried
PcAfterRetry(out) ==
    IF out.kind = "raise" THEN "raised"
    ELSE IF out.value.status = "error" THEN "launch" ELSE "returned"

\* where the call goes when the function body has ended
PcAfter(out) == IF out.kind = "return" THEN "returned" ELSE "raised"

\* the function ends with the outcome of its try statement
Finish(body) ==
    LET out == Try(call, body) IN
    /\ pc' = PcAfter(out)
    /\ result' = IF out.kind = "return" THEN out.value ELSE NoResult
    /\ exc' = IF body.kind = "raise" THEN body.exc ELSE exc

----------------------------------------------------------------------------
(* The state machine *)

Init ==
    /\ pc = "idle"
    /\ call = NoCall
    /\ command = <<>>
    /\ network_info = <<>>
    /\ child = "none"
    /\ launches = 0
    /\ started = 0
    /\ elapsed = 0
    /\ proc = NoProc
    /\ exc = NoExc
    /\ result = NoResult

CallCreate ==
    /\ pc = "idle"
    /\ \E p \in ProjectIds, z \in Zones, v \in VmNames, n \in NetworkArgs,
          s \in SubnetworkArgs, m \in MachineTypeArgs :
          call' = [op |-> "create", project_id |-> p, zone |-> z, vm_name |-> v,
                   network |-> Param(n, "test"),
                   subnetwork |-> Param(s, "test1"),
                   machine_type |-> Param(m, "n1-standard-1"),
                   image_family |-> "debian-11",
                   image_project |-> "debian-cloud"]
    /\ pc' = "build"
    /\ UNCHANGED <<command, network_info, child, launches, started, elapsed,
                   proc, exc, result>>

CallShell ==
    /\ pc = "idle"
    /\ \E o \in ShellOps, p \in ProjectIds, v \in VmNames, z \in Zones :
          call' = [op |-> o, project_id |-> p, vm_name |-> v, zone |-> z]
    /\ pc' = "build"
    /\ UNCHANGED <<command, network_info, child, launches, started, elapsed,
                   proc, exc, result>>

CreateBuild ==
    /\ pc = "build"
    /\ call.op = "create"
    /\ LET b == BuildCreate(call) IN
       IF b.early
       THEN /\ Finish(Return(ValidationError))
            /\ UNCHANGED <<command, network_info>>
       ELSE /\ command' = b.command_parts
            /\ network_info' = b.network_info
            /\ pc' = "launch"
            /\ UNCHANGED <<exc, result>>
    /\ UNCHANGED <<call, child, launches, started, elapsed, proc>>

ShellBuild ==
    /\ pc = "build"
    /\ call.op \in ShellOps
    /\ command' = ShellCommand(call)
    /\ pc' = "launch"
    /\ UNCHANGED <<call, network_info, child, launches, started, elapsed,
                   proc, exc, result>>

\* subprocess.run / subprocess.Popen starts the child
LaunchOK ==
    /\ pc = "launch"
    /\ launches' = launches + 1
    /\ started' = started + 1
    /\ child' = "running"
    /\ elapsed' = 0
    /\ pc' = "wait"
    /\ UNCHANGED <<call, command, network_info, proc, exc, result>>

\* subprocess.run / subprocess.Popen raises and there is no child
LaunchFails ==
    /\ pc = "launch"
    /\ launches' = launches + 1
    /\ \E e \in LaunchErrors(call) : Finish(Raise(e))
    /\ UNCHANGED <<call, command, network_info, child, started, elapsed, proc>>

\* time passes while the call waits for the child
Tick ==
    /\ pc = "wait"
    /\ child = "running"
    /\ elapsed < TimeoutOf(call)
    /\ elapsed' = elapsed + TickSeconds
    /\ UNCHANGED <<pc, call, command, network_info, child, launches, started,
                   proc, exc, result>>

\* the child of create exits within the timeout: subprocess.run returns
RunReturns ==
    /\ pc = "wait"
    /\ call.op = "create"
    /\ child = "running"
    /\ elapsed < TimeoutOf(call)
    /\ child' = "exited"
    /\ \E rc \in ExitCodes, out \in Texts, err \in Texts :
          proc' = [returncode |-> rc, stdout |-> out, stderr |-> err,
                   completed |-> TRUE]
    /\ Finish(CreateAfterRun(call, network_info, proc'))
    /\ UNCHANGED <<call, command, network_info, launches, started, elapsed>>

\* the child of start/stop/delete exits within the timeout: communicate returns
CommunicateReturns ==
    /\ pc = "wait"
    /\ call.op \in ShellOps
    /\ child = "running"
    /\ elapsed < TimeoutOf(call)
    /\ child' = "exited"
    /\ \E rc \in ExitCodes, out \in ByteStrings, err \in ByteStrings :
          proc' = [returncode |-> rc, stdout |-> out, stderr |-> err,
                   completed |-> TRUE]
    /\ Finish(ShellAfterCommunicate(call, proc'))
    /\ UNCHANGED <<call, command, network_info, launches, started, elapsed>>

\* the child is still running when the timeout is over
TimeoutExpires ==
    /\ pc = "wait"
    /\ child = "running"
    /\ elapsed >= TimeoutOf(call)
    /\ child' = ChildAfterTimeout(call)
    /\ Finish(Raise(TimeoutExpired(call, command, TimeoutOf(call))))
    /\ UNCHANGED <<call, command, network_info, launches, started, elapsed, proc>>

\* a child the call left running ends later, and the operation takes effect
OrphanExits ==
    /\ pc \in {"returned", "raised"}
    /\ child = "running"
    /\ child' = "exited"
    /\ UNCHANGED <<pc, call, command, network_info, launches, started, elapsed,
                   proc, exc, result>>

Next ==
    \/ CallCreate
    \/ CallShell
    \/ CreateBuild
    \/ ShellBuild
    \/ LaunchOK
    \/ LaunchFails
    \/ Tick
    \/ RunReturns
    \/ CommunicateReturns
    \/ TimeoutExpires
    \/ OrphanExits

Spec == Init /\ [][Next]_vars

\* the timeout of subprocess.run and of communicate does fire
FairSpec == Spec /\ WF_vars(TimeoutExpires)

----------------------------------------------------------------------------
(* Vocabulary of the properties *)

Returned == pc = "returned"

\* sub occurs in msg as a run of consecutive segments
Contains(msg, sub) ==
    \E i \in 0..(Len(msg) - Len(sub)) : SubSeq(msg, i + 1, i + Len(sub)) = sub

HasArg(argv, arg) == \E i \in 1..Len(argv) : argv[i] = arg
HasSelector(argv, flag) == \E i \in 1..Len(argv) : argv[i][1] = flag

\* s is t without its leading and trailing whitespace
IsTrimOf(s, t) ==
    \E i \in 0..Len(t), j \in 0..Len(t) :
        /\ i + j <= Len(t)
        /\ s = SubSeq(t, i + 1, Len(t) - j)
        /\ \A k \in 1..i : t[k] \in {" ", "\n"}
        /\ \A k \in (Len(t) - j + 1)..Len(t) : t[k] \in {" ", "\n"}
        /\ s # <<>> => (s[1] \notin {" ", "\n"} /\ s[Len(s)] \notin {" ", "\n"})

\* msg is a prefix followed by exactly s
EndsWithExactly(msg, s) ==
    /\ Len(msg) > Len(s)
    /\ SubSeq(msg, Len(msg) - Len(s) + 1, Len(msg)) = s
    /\ msg[Len(msg) - Len(s)] \notin {" ", "\n"}

ChildExited == proc.completed
StderrIsText ==
    call.op = "create" \/ \A i \in 1..Len(proc.stderr) : proc.stderr[i] \in {101, 32, 10}
StderrText == IF call.op = "create" THEN proc.stderr ELSE Decode(proc.stderr)

BothEmpty == call.op = "create" /\ call.subnetwork = "" /\ call.network = ""
LaunchRaised == exc.type \in {"FileNotFoundError", "PermissionError", "BlockingIOError"}

DocumentedTimeout == IF call.op = "create" THEN 180 ELSE 60
Overran == pc = "wait" /\ child = "running" /\ elapsed >= DocumentedTimeout
TimeoutSpecific(msg) ==
    \E i \in 1..Len(msg) :
        msg[i] \in {"Timeout occurred while trying to create VM '", "' timed out after "}
InstallHint ==
    <<"Error: 'gcloud' command not found. Make sure Google Cloud SDK is installed and in your PATH.">>

SuccessText ==
    CASE call.op = "create" ->
            <<"Successfully created VM '", call.vm_name, "' in zone '", call.zone, "'">>
      [] call.op = "start" ->
            <<"Successfully started VM '", call.vm_name, "' in zone '", call.zone, "'.">>
      [] call.op = "stop" ->
            <<"Successfully stopped VM '", call.vm_name, "' in zone '", call.zone, "'.">>
      [] call.op = "delete" ->
            <<"Successfully deleted VM '", call.vm_name, "' in zone '", call.zone, "'.">>

----------------------------------------------------------------------------
(* Properties *)

\* C1: whatever the child does (exit 0, non-zero exit, timeout, binary not
\* found, any other exception), the call ends by returning a record whose
\* status is success or error; no exception leaves the function.
C1_EveryPathReturns ==
    /\ pc # "raised"
    /\ Returned => result.status \in {"success", "error"}
    /\ ~Returned => result = NoResult

C1_Witness ==
    Returned /\ exc.type = "UnicodeDecodeError" /\ result.status = "error"

C4_SubnetWins ==
    (call.op = "create" /\ call.subnetwork # "" /\ pc \notin {"idle", "build"}) =>
        /\ SubSeq(command, 1, 5) =
              << <<"gcloud">>, <<"compute">>, <<"instances">>, <<"create">>,
                 <<call.vm_name>> >>
        /\ HasArg(command, <<"--subnet=", call.subnetwork>>)
        /\ ~HasSelector(command, "--network=")
        /\ (Returned /\ ChildExited /\ proc.returncode = 0) =>
              Contains(result.result, <<"subnet '", call.subnetwork, "'">>)

C4_Witness ==
    /\ Returned /\ call.op = "create" /\ call.vm_name = "vm1"
    /\ call.subnetwork = "test1" /\ call.network = "test"
    /\ started = 1 /\ result.status = "success"
    /\ HasArg(command, <<"--subnet=", "test1">>)

\* C5: create with an empty subnetwork and a non-empty network passes the
\* network selector of that network and no subnet selector.
C5_NetworkFallback ==
    (call.op = "create" /\ call.subnetwork = "" /\ call.network # ""
        /\ pc \notin {"idle", "build"}) =>
        /\ HasArg(command, <<"--network=", call.network>>)
        /\ ~HasSelector(command, "--subnet=")

C5_Witness ==
    /\ call.op = "create" /\ call.subnetwork = "" /\ call.network = "legacy-net"
    /\ started = 1
    /\ HasArg(command, <<"--network=", "legacy-net">>)

\* C6: create with subnetwork and network both empty returns status error with
\* the message "Network or Subnetwork must be specified." and at no moment of
\* the call is a child process launched.
C6_ValidationError ==
    (BothEmpty /\ pc # "idle") =>
        /\ pc \in {"build", "returned"}
        /\ launches = 0 /\ started = 0 /\ child = "none"
        /\ Returned =>
              result = [status |-> "error",
                        error_message |-> <<"Network or Subnetwork must be specified.">>]

C6_Witness ==
    BothEmpty /\ Returned /\ result.status = "error" /\ launches = 0

\* C7: in each operation, once the child has run for the operation's timeout
\* (180 s for create, 60 s for start/stop/delete) the call eventually returns
\* status error with a message that tells of the timeout, and no other outcome
\* gives such a message.
C7_TimeoutReported ==
    /\ Overran ~> (/\ Returned
                   /\ result.status = "error"
                   /\ exc.type = "TimeoutExpired"
                   /\ TimeoutSpecific(result.error_message))
    /\ []((Returned /\ result.status = "error" /\ TimeoutSpecific(result.error_message))
             => exc.type = "TimeoutExpired")

C7_Witness ==
    /\ Returned /\ call.op \in ShellOps /\ elapsed >= 60
    /\ exc.type = "TimeoutExpired"
    /\ TimeoutSpecific(result.error_message)

\* C8: create whose tool binary is not found returns status error with the
\* installation hint, which is neither the timeout message nor the message of
\* an unexpected error, and which no other outcome gives.
C8_NotFoundHint ==
    /\ (Returned /\ call.op = "create" /\ exc.type = "FileNotFoundError") =>
          /\ result.status = "error"
          /\ result.error_message = InstallHint
          /\ ~TimeoutSpecific(result.error_message)
          /\ result.error_message[1] # "An unexpected error occurred: "
    /\ (Returned /\ result.status = "error" /\ result.error_message = InstallHint) =>
          (call.op = "create" /\ exc.type = "FileNotFoundError")

C8_Witness ==
    /\ Returned /\ call.op = "create" /\ exc.type = "FileNotFoundError"
    /\ result.error_message = InstallHint /\ child = "none"

\* C9: once a call has returned status error, the child it started is not
\* running any more.
C9_NoChildAfterError ==
    (Returned /\ result.status = "error") => child # "running"

\* C10 as stated: a call starts at most one child process, and exactly one
\* unless it is a create with subnetwork and network both empty.
C10_ExactlyOneChild ==
    /\ started <= 1
    /\ Returned => started = (IF BothEmpty THEN 0 ELSE 1)

\* C10 amended: a call launches a child at most once and never again after an
\* error; it has launched exactly once when it returns, unless it is a create
\* with subnetwork and network both empty (no launch); the launch starts
\* exactly one child unless the launch itself raised (no child).
C10_OneLaunchNoRetry ==
    /\ launches <= 1
    /\ started <= launches
    /\ Returned =>
          /\ launches = (IF BothEmpty THEN 0 ELSE 1)
          /\ started = (IF BothEmpty \/ LaunchRaised THEN 0 ELSE 1)

C10_Witness ==
    /\ Returned /\ call.op \in ShellOps /\ exc.type = "BlockingIOError"
    /\ launches = 1 /\ started = 0 /\ result.status = "error"

====
